---- MODULE Spec2Model ----
(***************************************************************************)
(* Model of the upload-triggered training pipeline of src/main.py:         *)
(* process_document_upload, auto_label_document, check_processor_versions, *)
(* process_with_document_ai, check_training_conditions and                 *)
(* trigger_training_workflow, over the Firestore collections               *)
(* processed_documents, training_configs and training_batches.             *)
(*                                                                         *)
(* Strings are TLA+ strings; a character is a string of length 1.          *)
(* Confidences are integers in hundredths (0.7 is 70).                     *)
(***************************************************************************)
EXTENDS Integers, Sequences, FiniteSets, TLC

(***************************************************************************)
(* String primitives (Python str methods used by the code)                 *)
(***************************************************************************)
Char(s, i) == SubSeq(s, i, i)

LowerChars == "abcdefghijklmnopqrstuvwxyz"
UpperChars == "ABCDEFGHIJKLMNOPQRSTUVWXYZ"
DigitChars == "0123456789"
HexChars == "0123456789abcdef"
\* every character the model's inputs use, in a fixed order (for Ord)
CharTable == LowerChars \o UpperChars \o DigitChars \o "/._- "

CharsOf(s) == {Char(s, i) : i \in 1..Len(s)}

IndexIn(c, table) == CHOOSE i \in 1..Len(table) : Char(table, i) = c

\* str.isalnum() on one character
IsAlnum(c) == c \in CharsOf(LowerChars \o UpperChars \o DigitChars)

UpperChar(c) ==
    IF c \in CharsOf(LowerChars) THEN Char(UpperChars, IndexIn(c, LowerChars)) ELSE c

LowerChar(c) ==
    IF c \in CharsOf(UpperChars) THEN Char(LowerChars, IndexIn(c, UpperChars)) ELSE c

RECURSIVE StrUpper(_)
StrUpper(s) ==
    IF Len(s) = 0 THEN "" ELSE UpperChar(Char(s, 1)) \o StrUpper(SubSeq(s, 2, Len(s)))

RECURSIVE StrLower(_)
StrLower(s) ==
    IF Len(s) = 0 THEN "" ELSE LowerChar(Char(s, 1)) \o StrLower(SubSeq(s, 2, Len(s)))

\* s.replace(' ', '_')
RECURSIVE ReplaceSpaces(_)
ReplaceSpaces(s) ==
    IF Len(s) = 0 THEN ""
    ELSE (IF Char(s, 1) = " " THEN "_" ELSE Char(s, 1))
         \o ReplaceSpaces(SubSeq(s, 2, Len(s)))

\* s.startswith(p)
StartsWith(s, p) == Len(s) >= Len(p) /\ SubSeq(s, 1, Len(p)) = p

\* k in s
Contains(s, k) ==
    \E i \in 1..(Len(s) - Len(k) + 1) : SubSeq(s, i, i + Len(k) - 1) = k

\* positions of the character c in s
Positions(s, c) == {i \in 1..Len(s) : Char(s, i) = c}

SeqRange(q) == {q[i] : i \in 1..Len(q)}

SetMax(S) == CHOOSE x \in S : \A y \in S : y <= x
SetMin(S) == CHOOSE x \in S : \A y \in S : x <= y

\* s.split('/') as a sequence of strings
RECURSIVE SplitSlash(_)
SplitSlash(s) ==
    IF Positions(s, "/") = {} THEN <<s>>
    ELSE LET i == SetMin(Positions(s, "/"))
         IN  <<SubSeq(s, 1, i - 1)>> \o SplitSlash(SubSeq(s, i + 1, Len(s)))

\* os.path.basename(s)
Basename(s) ==
    IF Positions(s, "/") = {} THEN s
    ELSE SubSeq(s, SetMax(Positions(s, "/")) + 1, Len(s))

\* s.rsplit('.', 1)[0] if '.' in s else s
NameWithoutExt(s) ==
    IF Positions(s, ".") = {} THEN s
    ELSE SubSeq(s, 1, SetMax(Positions(s, ".")) - 1)

(***************************************************************************)
(* Document identity (process_document_upload, lines 70-75)                *)
(***************************************************************************)
SafeNameLen == 40
HashHexLen == 8
HalfModulus == 16 * 16 * 16 * 16

\* ord(c), by position in CharTable
Ord(c) == IndexIn(c, CharTable)

\* hashlib.md5(file_name.encode()): md5 itself is not computed; it is modelled
\* by a deterministic fingerprint of the characters of the whole path with
\* the width of the 8 hex digits kept (two 16-bit halves, multipliers 31 and
\* 37), so that, like the truncated digest, it can collide
RECURSIVE Fingerprint(_, _, _)
Fingerprint(s, h, mult) ==
    IF Len(s) = 0 THEN h
    ELSE Fingerprint(SubSeq(s, 2, Len(s)), (h * mult + Ord(Char(s, 1))) % HalfModulus, mult)

\* the n low hex digits of v, most significant first
RECURSIVE HexDigits(_, _)
HexDigits(v, n) ==
    IF n = 0 THEN ""
    ELSE HexDigits(v \div 16, n - 1) \o Char(HexChars, (v % 16) + 1)

\* hashlib.md5(file_name.encode()).hexdigest()[:8]
FileHash(file_name) ==
    HexDigits(Fingerprint(file_name, 7, 31), HashHexLen \div 2)
        \o HexDigits(Fingerprint(file_name, 7, 37), HashHexLen \div 2)

\* c if c.isalnum() or c in '-_' else '_'
SafeChar(c) == IF IsAlnum(c) \/ c \in {"-", "_"} THEN c ELSE "_"

RECURSIVE MapSafe(_)
MapSafe(s) ==
    IF Len(s) = 0 THEN "" ELSE SafeChar(Char(s, 1)) \o MapSafe(SubSeq(s, 2, Len(s)))

\* ''.join(... for c in name_without_ext.replace(' ', '_'))[:40]
SafeName(name_without_ext) ==
    LET joined == MapSafe(ReplaceSpaces(name_without_ext))
    IN  SubSeq(joined, 1, IF Len(joined) < SafeNameLen THEN Len(joined) ELSE SafeNameLen)

\* document_id = f"{safe_name}_{file_hash}"
DocumentId(file_name) ==
    SafeName(NameWithoutExt(Basename(file_name))) \o "_" \o FileHash(file_name)

(***************************************************************************)
(* auto_label_document                                                     *)
(***************************************************************************)
\* DOCUMENT_TYPE_KEYWORDS, in dict (insertion) order
DOCUMENT_TYPE_KEYWORDS ==
    << [doc_type |-> "CAPITAL_CALL",
        keywords |-> <<"capital call", "drawdown", "commitment", "capital contribution">>],
       [doc_type |-> "DISTRIBUTION_NOTICE",
        keywords |-> <<"distribution", "proceeds", "realized", "dividend">>],
       [doc_type |-> "FINANCIAL_STATEMENT",
        keywords |-> <<"balance sheet", "income statement", "financial statement", "profit loss">>],
       [doc_type |-> "PORTFOLIO_SUMMARY",
        keywords |-> <<"portfolio", "holdings", "investments", "asset allocation">>],
       [doc_type |-> "TAX",
        keywords |-> <<"tax", "k-1", "schedule k", "1099", "1040">>] >>

\* any(keyword in file_name_lower for keyword in keywords)
AnyKeyword(keywords, file_name_lower) ==
    \E k \in 1..Len(keywords) : Contains(file_name_lower, keywords[k])

\* variant of KeywordLabel in which the last matching type wins
KeywordLabel_LastMatch(file_name_lower) ==
    LET hits == {i \in 1..Len(DOCUMENT_TYPE_KEYWORDS) :
                    AnyKeyword(DOCUMENT_TYPE_KEYWORDS[i].keywords, file_name_lower)}
    IN  IF hits = {} THEN "OTHER" ELSE DOCUMENT_TYPE_KEYWORDS[SetMax(hits)].doc_type

\* the for loop over DOCUMENT_TYPE_KEYWORDS.items(), first match returns
KeywordLabel(file_name_lower) ==
    LET hits == {i \in 1..Len(DOCUMENT_TYPE_KEYWORDS) :
                    AnyKeyword(DOCUMENT_TYPE_KEYWORDS[i].keywords, file_name_lower)}
    IN  IF hits = {} THEN "OTHER" ELSE DOCUMENT_TYPE_KEYWORDS[SetMin(hits)].doc_type

\* variant of AutoLabelDocument that tries the keywords before the folder
AutoLabelDocument_KeywordFirst(file_name) ==
    LET path_parts == SplitSlash(file_name)
    IN  IF Len(path_parts) > 2 /\ KeywordLabel(StrLower(file_name)) = "OTHER"
        THEN ReplaceSpaces(StrUpper(path_parts[2]))
        ELSE KeywordLabel(StrLower(file_name))

\* lines 184-201
AutoLabelDocument(file_name) ==
    LET path_parts == SplitSlash(file_name)
    IN  IF Len(path_parts) > 2
        THEN ReplaceSpaces(StrUpper(path_parts[2]))
        ELSE KeywordLabel(StrLower(file_name))

(***************************************************************************)
(* Module-level configuration of main.py and the inputs of the model       *)
(***************************************************************************)
PROCESSOR_ID == "proc-1"
\* another processor sharing the training_batches collection
OtherProcessor == "proc-2"
DocumentsPrefix == "documents/"
PdfContentType == "application/pdf"

\* bounds of the model
MaxClock == 3
MaxBatches == 2

\* object paths of the upload events
FileNames ==
    { "documents/cap call/d1.pdf",   \* folder segment with a space
      "documents/z.pdf",             \* no folder, no keyword
      "documents//n.pdf",            \* empty folder segment: empty label
      "documents/tax.pdf",           \* no folder, keyword tax
      "inbox/d1.pdf" }               \* outside the documents folder

\* GCS object-finalize events; contentType "" is event.get's default
Events ==
    { [bucket |-> "bkt", name |-> f, contentType |-> PdfContentType] :
        f \in FileNames \ {"documents/tax.pdf"} }
    \cup { [bucket |-> "bkt", name |-> "documents/tax.pdf", contentType |-> ""] }

\* the identity and the label of each path of the model
DocumentIdOf == [f \in FileNames |-> DocumentId(f)]
AutoLabelOf == [f \in FileNames |-> AutoLabelDocument(f)]

DocIds == {DocumentIdOf[f] : f \in FileNames}

\* absent Firestore documents
NoDoc == [exists |-> FALSE]
NoConfig == [exists |-> FALSE]

\* dict.get(key, default) on a stored record
Get(rec, key, default) == IF key \in DOMAIN rec THEN rec[key] ELSE default

\* Python truthiness of a string
Truthy(v) == v # ""

(***************************************************************************)
(* process_with_document_ai: classification of a ProcessResponse           *)
(***************************************************************************)
\* ProcessResponse.document of the classifier, entities and labels in order
Responses ==
    { [entities |-> << [type_ |-> "TAX", confidence |-> 70] >>, labels |-> << >>],
      [entities |-> << [type_ |-> "", confidence |-> 99],
                       [type_ |-> "CAPITAL_CALL", confidence |-> 40] >>,
       labels |-> << [name |-> "OTHER", confidence |-> 40] >>] }

\* lines 249-258: the first entity with a type, if any
EntityPick(entities) ==
    LET typed == {i \in 1..Len(entities) : Truthy(entities[i].type_)}
    IN  IF typed = {} THEN [document_type |-> "OTHER", confidence |-> 0]
        ELSE [document_type |-> entities[SetMin(typed)].type_,
              confidence |-> entities[SetMin(typed)].confidence]

\* lines 261-265: a label replaces the pick when strictly more confident
RECURSIVE LabelScan(_, _)
LabelScan(labels, pick) ==
    IF Len(labels) = 0 THEN pick
    ELSE LabelScan(Tail(labels),
                   IF Head(labels).confidence > pick.confidence
                   THEN [document_type |-> Head(labels).name,
                         confidence |-> Head(labels).confidence]
                   ELSE pick)

ProcessWithDocumentAI(response) == LabelScan(response.labels, EntityPick(response.entities))

\* line 117: confidence < 0.7, in hundredths
LowConfidence == 70

(***************************************************************************)
(* check_training_conditions                                               *)
(***************************************************************************)
ActiveStatuses == {"pending", "preparing", "training", "deploying"}
TerminalStatuses == {"completed", "failed"}

\* lines 301-308
DefaultConfig(now) ==
    [ enabled |-> TRUE,
      min_documents_for_initial_training |-> 3,
      min_documents_for_incremental |-> 2,
      min_accuracy_for_deployment |-> 0,
      check_interval_minutes |-> 60,
      created_at |-> now ]

\* variant of ActiveTraining whose status list lacks 'deploying'
ActiveTraining_NoDeploying(bs) ==
    \E i \in 1..Len(bs) :
        bs[i].processor_id = PROCESSOR_ID
        /\ bs[i].status \in {"pending", "preparing", "training"}

\* lines 319-325: training_batches of this processor in a non-terminal status
ActiveTraining(bs) ==
    \E i \in 1..Len(bs) :
        bs[i].processor_id = PROCESSOR_ID /\ bs[i].status \in ActiveStatuses

\* variant of HasLabel that keeps every document
HasLabel_Any(rec) == TRUE

\* line 348 / 349: doc.to_dict().get('document_label') is truthy
HasLabel(rec) == Truthy(Get(rec, "document_label", ""))

\* lines 330-334, 344, 348
PendingInitial(ds) ==
    {d \in DOMAIN ds :
        /\ ds[d] # NoDoc
        /\ Get(ds[d], "processor_id", "") = PROCESSOR_ID
        /\ Get(ds[d], "status", "") = "pending_initial_training"
        /\ HasLabel(ds[d])}

\* lines 336-342, 345, 349
UnusedCompleted(ds) ==
    {d \in DOMAIN ds :
        /\ ds[d] # NoDoc
        /\ Get(ds[d], "processor_id", "") = PROCESSOR_ID
        /\ Get(ds[d], "status", "") = "completed"
        /\ Get(ds[d], "used_for_training", TRUE) = FALSE
        /\ HasLabel(ds[d])}

NoTraining == [should_train |-> FALSE, training_type |-> ""]

\* variant of Thresholds comparing the pending count with > instead of >=
Thresholds_StrictInitial(cfg, pending_count, unused_count) ==
    IF pending_count > Get(cfg, "min_documents_for_initial_training", 3)
    THEN [should_train |-> TRUE, training_type |-> "initial"]
    ELSE IF unused_count >= Get(cfg, "min_documents_for_incremental", 2)
         THEN [should_train |-> TRUE, training_type |-> "incremental"]
         ELSE NoTraining

\* variant of Thresholds comparing the unused count with > instead of >=
Thresholds_StrictIncremental(cfg, pending_count, unused_count) ==
    IF pending_count >= Get(cfg, "min_documents_for_initial_training", 3)
    THEN [should_train |-> TRUE, training_type |-> "initial"]
    ELSE IF unused_count > Get(cfg, "min_documents_for_incremental", 2)
         THEN [should_train |-> TRUE, training_type |-> "incremental"]
         ELSE NoTraining

\* lines 371-383: the threshold comparisons
Thresholds(cfg, pending_count, unused_count) ==
    IF pending_count >= Get(cfg, "min_documents_for_initial_training", 3)
    THEN [should_train |-> TRUE, training_type |-> "initial"]
    ELSE IF unused_count >= Get(cfg, "min_documents_for_incremental", 2)
         THEN [should_train |-> TRUE, training_type |-> "incremental"]
         ELSE NoTraining

\* the external call that raises in one invocation, if any
FaultPoints ==
    { "doc_get", "list_versions", "process_document", "doc_set", "config_get",
      "config_set", "batches_query", "docs_query", "create_execution" }

\* an invocation sees at most one failure
FaultSets == {{}} \cup {{f} : f \in FaultPoints}

\* training_configs records an operator may have stored beforehand; the
\* second lacks the key enabled
AdminConfigs ==
    { [enabled |-> FALSE, min_documents_for_initial_training |-> 1,
       min_documents_for_incremental |-> 1],
      [min_documents_for_initial_training |-> 2,
       min_documents_for_incremental |-> 1] }

\* variant of Enabled that ignores the flag
Enabled_Ignored(cfg) == TRUE

\* line 314: config.get('enabled', True)
Enabled(cfg) == Get(cfg, "enabled", TRUE)

\* a call that raised, in the record of calls
Raised(call) == call \o " raised"

\* the outcome of a check_training_conditions call on the store (cfg, bs, ds):
\* the pair returned, the training_configs record left behind and the store
\* calls made, in order.  Any exception returns (False, '') (lines 385-387).
CheckTrainingConditions(cfg, bs, ds, t, faults) ==
    LET Out(ret, c, cs) ==
            [should_train |-> ret.should_train, training_type |-> ret.training_type,
             config |-> c, calls |-> cs]
        config == IF cfg = NoConfig THEN DefaultConfig(t) ELSE cfg
        getset == IF cfg = NoConfig THEN <<"config_get", "config_set">> ELSE <<"config_get">>
    IN  IF "config_get" \in faults THEN Out(NoTraining, cfg, <<Raised("config_get")>>)
        ELSE IF cfg = NoConfig /\ "config_set" \in faults
             THEN Out(NoTraining, cfg, <<"config_get", Raised("config_set")>>)
        ELSE IF ~Enabled(config) THEN Out(NoTraining, config, getset)
        ELSE IF "batches_query" \in faults
             THEN Out(NoTraining, config, getset \o <<Raised("batches_query")>>)
        ELSE IF ActiveTraining(bs)
             THEN Out(NoTraining, config, getset \o <<"batches_query">>)
        ELSE IF "docs_query" \in faults
             THEN Out(NoTraining, config,
                      getset \o <<"batches_query", Raised("docs_query")>>)
        ELSE Out(Thresholds(config, Cardinality(PendingInitial(ds)),
                            Cardinality(UnusedCompleted(ds))),
                 config, getset \o <<"batches_query", "docs_query", "docs_query">>)

(***************************************************************************)
(* State                                                                   *)
(***************************************************************************)
VARIABLES
    docs,        \* collection processed_documents: document_id -> record
    config,      \* training_configs/{PROCESSOR_ID}
    batches,     \* collection training_batches, in creation order
    versions,    \* states of the processor's versions
    executions,  \* workflow executions created by trigger_training_workflow
    started,     \* how many of them the workflow runner has begun
    now,         \* the clock read by datetime.now
    result,      \* what the latest process_document_upload returned
    calls,       \* the external calls the latest invocation made, in order
    ret,         \* what the latest check_training_conditions (in SpecFn: the
                 \* function applied) returned
    pc,          \* concurrent invocations: the call each one is about to make
    loc          \* concurrent invocations: the local variables of each

vars == <<docs, config, batches, versions, executions, started, now, result, calls,
          ret, pc, loc>>

\* the concurrent invocations (Cloud Function instances)
Procs == {1, 2}

\* batches of this processor that reached a terminal status
TerminalCount(bs) ==
    Cardinality({i \in 1..Len(bs) :
        bs[i].processor_id = PROCESSOR_ID /\ bs[i].status \in TerminalStatuses})

(***************************************************************************)
(* process_document_upload                                                 *)
(***************************************************************************)
\* variant of EventDocumentId whose id also depends on when the invocation
\* runs: a later invocation addresses another record
EventDocumentId_Timed(event) ==
    DocumentIdOf[IF now = 1 THEN event.name ELSE "inbox/d1.pdf"]

\* lines 60, 70-75: the document_id of an event is computed from its name
EventDocumentId(event) == DocumentIdOf[event.name]

\* lines 91-101
DocData(event, document_id, document_label, t) ==
    [ document_id |-> document_id,
      gcs_uri |-> "gs://" \o event.bucket \o "/" \o event.name,
      bucket |-> event.bucket,
      file_name |-> event.name,
      processor_id |-> PROCESSOR_ID,
      status |-> "pending",
      document_label |-> document_label,
      created_at |-> t,
      used_for_training |-> FALSE ]

\* variant of TrainingLabel that keeps every auto-label, OTHER included, on a
\* low confidence
TrainingLabel_KeepOther(document_label, pick) ==
    IF pick.confidence < LowConfidence THEN document_label ELSE pick.document_type

\* lines 117-120: the label kept for training
TrainingLabel(document_label, pick) ==
    IF pick.confidence < LowConfidence /\ document_label # "OTHER"
    THEN document_label
    ELSE pick.document_type

\* lines 122-129: doc_data.update(...); extracted_data is not modelled
Classified(doc_data, pick, t) ==
    [ document_id |-> doc_data.document_id,
      gcs_uri |-> doc_data.gcs_uri,
      bucket |-> doc_data.bucket,
      file_name |-> doc_data.file_name,
      processor_id |-> doc_data.processor_id,
      status |-> "completed",
      document_label |-> TrainingLabel(doc_data.document_label, pick),
      created_at |-> doc_data.created_at,
      used_for_training |-> doc_data.used_for_training,
      document_type |-> pick.document_type,
      confidence_score |-> pick.confidence,
      processed_at |-> t ]

\* variant of StoredForInitial that leaves the status of line 97
StoredForInitial_Pending(doc_data) == doc_data

\* line 133
StoredForInitial(doc_data) == [doc_data EXCEPT !.status = "pending_initial_training"]

\* check_processor_versions: any version DEPLOYED; False on an exception
CheckProcessorVersions(vs, faults) ==
    IF "list_versions" \in faults THEN FALSE ELSE "DEPLOYED" \in vs

\* variant of NotADocument that does not test the content type
NotADocument_AnyType(event) == ~StartsWith(event.name, DocumentsPrefix)

\* line 66
NotADocument(event) ==
    ~StartsWith(event.name, DocumentsPrefix) \/ ~(event.contentType = PdfContentType)

SkippedEvents == {e \in Events : NotADocument(e)}

\* variant of AlreadyProcessed that never short-circuits
AlreadyProcessed_Never(existing_doc) == FALSE

\* line 81
AlreadyProcessed(existing_doc) ==
    existing_doc # NoDoc /\ Get(existing_doc, "status", "") = "completed"

\* variant of ClassificationRaises for a classifier wrapper that swallows the
\* exception
ClassificationRaises_Swallowed(faults) == FALSE

\* lines 110, 284-286: process_with_document_ai re-raises what its calls raise
ClassificationRaises(faults) == "process_document" \in faults

\* lines 396-411: the execution created (epoch: terminal batches so far)
Execution(training_type, t, bs) ==
    [training_type |-> training_type, triggered_at |-> t, epoch |-> TerminalCount(bs)]

\* variant of ErrorResult for a handler that lets the exception escape
ErrorResult_Propagated(fault) == [status |-> "unhandled", error |-> fault]

\* lines 169-174: the outer except returns the error as a result
ErrorResult(fault) == [status |-> "error", error |-> fault]

\* variant of PartialSuccess for a handler whose outer except catches the
\* trigger's exception
PartialSuccess_AsError(document_id, fault) == [status |-> "error", error |-> fault]

\* lines 153-160: the trigger raised
PartialSuccess(document_id, fault) ==
    [status |-> "partial_success", document_id |-> document_id,
     training_triggered |-> FALSE, error |-> fault]

\* check_training_conditions was not called
NoRet == [called |-> FALSE]

\* One whole invocation of process_document_upload on the current store:
\* the store it leaves, the value it returns, the calls it makes and the
\* clock when it returns (time passes once line 99 has read it).
Handler(event, faults, response) ==
    LET Out(ds, c, ex, res, cs, r, t) ==
            [docs |-> ds, config |-> c, executions |-> ex, result |-> res,
             calls |-> cs, ret |-> r, now |-> t]
        Same(res, cs, t) == Out(docs, config, executions, res, cs, NoRet, t)
        document_id == EventDocumentId(event)
        document_label == AutoLabelOf[event.name]
        doc_data == DocData(event, document_id, document_label, now)
        has_trained_version == CheckProcessorVersions(versions, faults)
        pick == ProcessWithDocumentAI(response)
        final_doc == IF has_trained_version THEN Classified(doc_data, pick, now)
                     ELSE StoredForInitial(doc_data)
        listed == IF "list_versions" \in faults THEN Raised("list_versions")
                  ELSE "list_versions"
        before_set == <<"doc_get", listed>>
                      \o (IF has_trained_version THEN <<"process_document">> ELSE << >>)
        docs1 == [docs EXCEPT ![document_id] = final_doc]
        chk == CheckTrainingConditions(config, batches, docs1, now, faults)
        r == [called |-> TRUE, should_train |-> chk.should_train,
              training_type |-> chk.training_type]
        checked == before_set \o <<"doc_set">> \o chk.calls
    IN  IF event \in SkippedEvents
        THEN Same([status |-> "skipped", reason |-> "Not a document PDF"], << >>, now)
        ELSE IF "doc_get" \in faults
        THEN Same(ErrorResult("doc_get"), <<Raised("doc_get")>>, now)
        ELSE IF AlreadyProcessed(docs[document_id])
        THEN Same([status |-> "skipped", reason |-> "Already processed"],
                  <<"doc_get">>, now)
        ELSE IF has_trained_version /\ ClassificationRaises(faults)
        THEN Same(ErrorResult("process_document"),
                  <<"doc_get", listed, Raised("process_document")>>, now + 1)
        ELSE IF "doc_set" \in faults
        THEN Same(ErrorResult("doc_set"), before_set \o <<Raised("doc_set")>>, now + 1)
        ELSE IF ~chk.should_train
        THEN Out(docs1, chk.config, executions,
                 [status |-> "success", document_id |-> document_id,
                  document_label |-> final_doc.document_label,
                  training_triggered |-> FALSE],
                 checked, r, now + 1)
        ELSE IF "create_execution" \in faults
        THEN Out(docs1, chk.config, executions,
                 PartialSuccess(document_id, "create_execution"),
                 checked \o <<Raised("create_execution")>>, r, now + 1)
        ELSE Out(docs1, chk.config,
                 Append(executions, Execution(chk.training_type, now, batches)),
                 [status |-> "success", document_id |-> document_id,
                  document_label |-> final_doc.document_label,
                  training_triggered |-> TRUE, training_type |-> chk.training_type],
                 checked \o <<"create_execution">>, r, now + 1)

\* an upload event is delivered and handled to completion
ProcessDocumentUpload(event, faults, response) ==
    /\ now < MaxClock
    /\ \E o \in {Handler(event, faults, response)} :
           /\ docs' = o.docs
           /\ config' = o.config
           /\ executions' = o.executions
           /\ result' = o.result
           /\ calls' = o.calls
           /\ ret' = o.ret
           /\ now' = o.now
    /\ UNCHANGED <<batches, versions, started, pc, loc>>

(***************************************************************************)
(* The training workflow and other writers of the store (not in main.py)   *)
(***************************************************************************)
\* the workflow runner begins the next execution: a batch record appears
WorkflowStart ==
    /\ started < Len(executions)
    /\ Len(batches) < MaxBatches
    /\ batches' = Append(batches,
                         [processor_id |-> PROCESSOR_ID, status |-> "pending",
                          training_type |-> executions[started + 1].training_type])
    /\ started' = started + 1
    /\ UNCHANGED <<docs, config, versions, executions, now, result, calls, ret, pc, loc>>

NextStatus(status) ==
    CASE status = "pending" -> "preparing"
      [] status = "preparing" -> "training"
      [] status = "training" -> "deploying"
      [] status = "deploying" -> "completed"

\* the documents a finished batch has consumed
Consumed(rec) ==
    IF rec # NoDoc /\ HasLabel(rec) THEN [rec EXCEPT !.used_for_training = TRUE] ELSE rec

\* a batch moves to its next status; completing deploys a version and
\* marks the labeled documents used
BatchAdvance(i) ==
    /\ batches[i].processor_id = PROCESSOR_ID
    /\ batches[i].status \in ActiveStatuses
    /\ batches' = [batches EXCEPT ![i].status = NextStatus(batches[i].status)]
    /\ IF batches[i].status = "deploying"
       THEN /\ versions' = versions \cup {"DEPLOYED"}
            /\ docs' = [d \in DOMAIN docs |-> Consumed(docs[d])]
       ELSE UNCHANGED <<versions, docs>>
    /\ UNCHANGED <<config, executions, started, now, result, calls, ret, pc, loc>>

\* a batch fails
BatchFail(i) ==
    /\ batches[i].processor_id = PROCESSOR_ID
    /\ batches[i].status \in ActiveStatuses
    /\ batches' = [batches EXCEPT ![i].status = "failed"]
    /\ UNCHANGED <<docs, config, versions, executions, started, now, result, calls, ret, pc, loc>>

\* what the shared training_batches collection may hold at the start: nothing,
\* or a batch of another processor in training
InitialBatches ==
    { << >>,
      << [processor_id |-> OtherProcessor, status |-> "training",
          training_type |-> "initial"] >> }

(***************************************************************************)
(* Specification: invocations run one at a time                            *)
(***************************************************************************)
IdleLoc == [event |-> "none"]

Init ==
    /\ pc = [p \in Procs |-> "idle"]
    /\ loc = [p \in Procs |-> IdleLoc]
    /\ docs = [d \in DocIds |-> NoDoc]
    /\ config \in {NoConfig} \cup AdminConfigs
    /\ batches \in InitialBatches
    /\ versions \in {{}, {"DEPLOYED"}}
    /\ executions = << >>
    /\ started = 0
    /\ now = 1
    /\ result = [status |-> "none"]
    /\ calls = << >>
    /\ ret = NoRet

\* whether the invocation reaches process_with_document_ai's response
Classifies(event, faults) ==
    /\ event \notin SkippedEvents
    /\ "doc_get" \notin faults
    /\ ~AlreadyProcessed(docs[EventDocumentId(event)])
    /\ CheckProcessorVersions(versions, faults)
    /\ ~ClassificationRaises(faults)

\* the response is an input only of the invocations that classify
Upload == \E event \in Events, faults \in FaultSets :
              \E response \in IF Classifies(event, faults) THEN Responses
                              ELSE {CHOOSE r \in Responses : TRUE} :
                  ProcessDocumentUpload(event, faults, response)

Advance == \E i \in 1..Len(batches) : BatchAdvance(i)

Fail == \E i \in 1..Len(batches) : BatchFail(i)

Next == Upload \/ WorkflowStart \/ Advance \/ Fail

Spec == Init /\ [][Next]_vars

(***************************************************************************)
(* Specification: concurrent invocations, one external call per step       *)
(***************************************************************************)
\* the invocation returns
Return(p) ==
    /\ pc' = [pc EXCEPT ![p] = "idle"]
    /\ loc' = [loc EXCEPT ![p] = IdleLoc]

\* the invocation goes on to its next call with locals l
Goto(p, label, l) ==
    /\ pc' = [pc EXCEPT ![p] = label]
    /\ loc' = [loc EXCEPT ![p] = l]

\* lines 57-79: an event arrives, is filtered, and the invocation is about to
\* read its document record
Begin(p, event) ==
    /\ pc[p] = "idle"
    /\ now < MaxClock
    /\ event \notin SkippedEvents
    /\ Goto(p, "doc_get", [event |-> event, document_id |-> EventDocumentId(event)])
    /\ UNCHANGED <<docs, config, batches, versions, executions, started, now,
                   result, calls, ret>>

\* lines 79-101: doc_ref.get(), the already-processed test, doc_data
DocGet(p, fails) ==
    /\ pc[p] = "doc_get"
    /\ now < MaxClock
    /\ IF fails \/ AlreadyProcessed(docs[loc[p].document_id])
       THEN Return(p) /\ UNCHANGED now
       ELSE /\ Goto(p, "list_versions",
                    loc[p] @@
                    [doc_data |-> DocData(loc[p].event, loc[p].document_id,
                                          AutoLabelOf[loc[p].event.name], now)])
            /\ now' = now + 1
    /\ UNCHANGED <<docs, config, batches, versions, executions, started, result, calls, ret>>

\* lines 103-107, 130-133: check_processor_versions
ListVersions(p, fails) ==
    /\ pc[p] = "list_versions"
    /\ IF CheckProcessorVersions(versions, IF fails THEN {"list_versions"} ELSE {})
       THEN Goto(p, "process_document", loc[p])
       ELSE Goto(p, "doc_set",
                 [loc[p] EXCEPT !.doc_data = StoredForInitial(loc[p].doc_data)])
    /\ UNCHANGED <<docs, config, batches, versions, executions, started, now,
                   result, calls, ret>>

\* lines 108-129: process_with_document_ai and doc_data.update
ProcessDocument(p, fails, response) ==
    /\ pc[p] = "process_document"
    /\ IF fails
       THEN Return(p)
       ELSE Goto(p, "doc_set",
                 [loc[p] EXCEPT !.doc_data =
                     Classified(loc[p].doc_data, ProcessWithDocumentAI(response), now)])
    /\ UNCHANGED <<docs, config, batches, versions, executions, started, now,
                   result, calls, ret>>

\* variant of DocSet that goes on to the evaluation without having written
DocSet_Deferred(p, fails) ==
    /\ pc[p] = "doc_set"
    /\ IF fails THEN Return(p) ELSE Goto(p, "config_get", loc[p])
    /\ UNCHANGED <<docs, config, batches, versions, executions, started, now, result,
                   calls, ret>>

\* line 136: doc_ref.set(doc_data)
DocSet(p, fails) ==
    /\ pc[p] = "doc_set"
    /\ IF fails
       THEN Return(p) /\ UNCHANGED docs
       ELSE /\ docs' = [docs EXCEPT ![loc[p].document_id] = loc[p].doc_data]
            /\ Goto(p, "config_get", loc[p])
    /\ UNCHANGED <<config, batches, versions, executions, started, now, result, calls, ret>>

\* lines 296-316: config_ref.get() and the enabled test
ConfigGet(p, fails) ==
    /\ pc[p] = "config_get"
    /\ IF fails THEN Return(p)
       ELSE IF config = NoConfig
       THEN Goto(p, "config_set", loc[p] @@ [config |-> DefaultConfig(now)])
       ELSE IF ~Enabled(config) THEN Return(p)
       ELSE Goto(p, "batches_query", loc[p] @@ [config |-> config])
    /\ UNCHANGED <<docs, config, batches, versions, executions, started, now,
                   result, calls, ret>>

\* lines 309-316: config_ref.set(default_config)
ConfigSet(p, fails) ==
    /\ pc[p] = "config_set"
    /\ IF fails
       THEN Return(p) /\ UNCHANGED config
       ELSE /\ config' = loc[p].config
            /\ IF ~Enabled(loc[p].config) THEN Return(p)
               ELSE Goto(p, "batches_query", loc[p])
    /\ UNCHANGED <<docs, batches, versions, executions, started, now, result, calls, ret>>

\* lines 319-327: the active-training query
BatchesQuery(p, fails) ==
    /\ pc[p] = "batches_query"
    /\ IF fails \/ ActiveTraining(batches)
       THEN Return(p)
       ELSE Goto(p, "pending_query", loc[p])
    /\ UNCHANGED <<docs, config, batches, versions, executions, started, now,
                   result, calls, ret>>

\* lines 344, 348, 351: the pending_initial_training query
PendingQuery(p, fails) ==
    /\ pc[p] = "pending_query"
    /\ IF fails THEN Return(p)
       ELSE Goto(p, "unused_query",
                 loc[p] @@ [pending_count |-> Cardinality(PendingInitial(docs))])
    /\ UNCHANGED <<docs, config, batches, versions, executions, started, now,
                   result, calls, ret>>

\* lines 345, 349, 352, 371-383 and 140-142: the unused-completed query and
\* the decision
UnusedQuery(p, fails) ==
    /\ pc[p] = "unused_query"
    /\ LET decision == Thresholds(loc[p].config, loc[p].pending_count,
                                  Cardinality(UnusedCompleted(docs)))
       IN  IF fails \/ ~decision.should_train
           THEN Return(p)
           ELSE Goto(p, "create_execution",
                     loc[p] @@ [training_type |-> decision.training_type])
    /\ UNCHANGED <<docs, config, batches, versions, executions, started, now,
                   result, calls, ret>>

\* lines 145, 390-418: trigger_training_workflow
CreateExecution(p, fails) ==
    /\ pc[p] = "create_execution"
    /\ executions' = IF fails THEN executions
                     ELSE Append(executions,
                                 Execution(loc[p].training_type, now, batches))
    /\ Return(p)
    /\ UNCHANGED <<docs, config, batches, versions, started, now, result, calls, ret>>

Step(p) ==
    \/ \E event \in Events : Begin(p, event)
    \/ \E fails \in BOOLEAN :
        \/ DocGet(p, fails)
        \/ ListVersions(p, fails)
        \/ \E response \in Responses : ProcessDocument(p, fails, response)
        \/ DocSet(p, fails)
        \/ ConfigGet(p, fails)
        \/ ConfigSet(p, fails)
        \/ BatchesQuery(p, fails)
        \/ PendingQuery(p, fails)
        \/ UnusedQuery(p, fails)
        \/ CreateExecution(p, fails)

ConcNext == (\E p \in Procs : Step(p)) \/ WorkflowStart \/ Advance \/ Fail

SpecConc == Init /\ [][ConcNext]_vars

(***************************************************************************)
(* Specification: check_training_conditions applied to a store drawn from  *)
(* bounded sets                                                            *)
(***************************************************************************)
\* number of processed_documents records in the evaluated store
EvalDocs == 3

\* processed_documents records as the queries see them: absent, pending or
\* completed, labeled, with an empty label or without the field, used or
\* not, of this processor or of another
DocSamples ==
    { NoDoc,
      [processor_id |-> PROCESSOR_ID, status |-> "pending_initial_training",
       document_label |-> "TAX", used_for_training |-> FALSE],
      [processor_id |-> PROCESSOR_ID, status |-> "pending_initial_training",
       document_label |-> "", used_for_training |-> FALSE],
      [processor_id |-> PROCESSOR_ID, status |-> "completed",
       document_label |-> "TAX", used_for_training |-> FALSE],
      [processor_id |-> PROCESSOR_ID, status |-> "completed",
       document_label |-> "OTHER", used_for_training |-> TRUE],
      [processor_id |-> PROCESSOR_ID, status |-> "completed",
       used_for_training |-> FALSE],
      [processor_id |-> OtherProcessor, status |-> "pending_initial_training",
       document_label |-> "TAX", used_for_training |-> FALSE] }

ConfigSamples ==
    { NoConfig,
      [enabled |-> FALSE, min_documents_for_initial_training |-> 1,
       min_documents_for_incremental |-> 1],
      [enabled |-> TRUE, min_documents_for_initial_training |-> 2,
       min_documents_for_incremental |-> 1],
      [enabled |-> TRUE, min_documents_for_initial_training |-> 1,
       min_documents_for_incremental |-> 3],
      [min_documents_for_initial_training |-> 3],
      [enabled |-> TRUE] }

Batch(processor_id, status) ==
    [processor_id |-> processor_id, status |-> status, training_type |-> "initial"]

BatchSamples ==
    { << >> }
    \cup { <<Batch(PROCESSOR_ID, st)>> : st \in ActiveStatuses \cup TerminalStatuses }
    \cup { <<Batch(OtherProcessor, "training")>>,
           <<Batch(PROCESSOR_ID, "completed"), Batch(PROCESSOR_ID, "deploying")>>,
           <<Batch(OtherProcessor, "pending"), Batch(PROCESSOR_ID, "failed")>> }

EvalFaults ==
    {{}} \cup {{f} : f \in {"config_get", "config_set", "batches_query", "docs_query"}}

InitEval ==
    /\ docs \in [1..EvalDocs -> DocSamples]
    /\ config \in ConfigSamples
    /\ batches \in BatchSamples
    /\ versions = {}
    /\ executions = << >>
    /\ started = 0
    /\ now = 1
    /\ result = [status |-> "none"]
    /\ calls = << >>
    /\ ret = NoRet
    /\ pc = [p \in Procs |-> "idle"]
    /\ loc = [p \in Procs |-> IdleLoc]

\* one call of check_training_conditions on the store
Evaluate(faults) ==
    /\ ~ret.called
    /\ \E o \in {CheckTrainingConditions(config, batches, docs, now, faults)} :
           /\ config' = o.config
           /\ calls' = o.calls
           /\ ret' = [called |-> TRUE, should_train |-> o.should_train,
                      training_type |-> o.training_type]
    /\ UNCHANGED <<docs, batches, versions, executions, started, now, result, pc, loc>>

NextEval == \E faults \in EvalFaults : Evaluate(faults)

SpecEval == InitEval /\ [][NextEval]_vars

(***************************************************************************)
(* Specification: auto_label_document and process_with_document_ai applied *)
(* once to an argument drawn from bounded sets                             *)
(***************************************************************************)
\* what follows documents/ before the file name: nothing, a folder with a
\* space, an empty segment, folders named like keywords, nested folders
LabelFolders == {"", "cap call/", "/", "tax/", "Misc Docs/", "a/b/", "k-1 forms/"}

\* file names: without a keyword, with one, with keywords of several types
\* in either order, in upper case, without an extension
LabelFileNames ==
    { "z.pdf", "tax.pdf", "Capital Call 1040.pdf", "dividend tax.pdf",
      "Tax Distribution.PDF", "d1.pdf", "holdings", "realized k-1.pdf" }

\* paths that pass the filter of line 66
LabelPaths == {DocumentsPrefix \o d \o f : d \in LabelFolders, f \in LabelFileNames}

\* bounds on the entities and labels of a sampled response
MaxEntities == 2
MaxLabels == 2

EntitySamples ==
    { [type_ |-> "", confidence |-> 99],
      [type_ |-> "TAX", confidence |-> 30],
      [type_ |-> "CAPITAL_CALL", confidence |-> 90],
      [type_ |-> "OTHER", confidence |-> 30] }

LabelSamples ==
    { [name |-> "DISTRIBUTION_NOTICE", confidence |-> 30],
      [name |-> "PORTFOLIO_SUMMARY", confidence |-> 90],
      [name |-> "TAX", confidence |-> 95] }

\* the sequences over S of length at most n
SeqsUpTo(S, n) == UNION {[1..k -> S] : k \in 0..n}

ResponseSamples ==
    { [entities |-> es, labels |-> ls] :
        es \in SeqsUpTo(EntitySamples, MaxEntities),
        ls \in SeqsUpTo(LabelSamples, MaxLabels) }

\* the function applied and its argument
FnCalls ==
    { [fn |-> "auto_label_document", file_name |-> f] : f \in LabelPaths }
    \cup { [fn |-> "process_with_document_ai", response |-> r] : r \in ResponseSamples }

InitFn ==
    /\ loc \in {[p \in Procs |-> IF p = 1 THEN c ELSE IdleLoc] : c \in FnCalls}
    /\ pc = [p \in Procs |-> IF p = 1 THEN loc[1].fn ELSE "idle"]
    /\ docs = [d \in DocIds |-> NoDoc]
    /\ config = NoConfig
    /\ batches = << >>
    /\ versions = {"DEPLOYED"}
    /\ executions = << >>
    /\ started = 0
    /\ now = 1
    /\ result = [status |-> "none"]
    /\ calls = << >>
    /\ ret = NoRet

\* the function returns value to its caller
Returns(value) ==
    /\ ret' = [called |-> TRUE, value |-> value]
    /\ pc' = [pc EXCEPT ![1] = "returned"]
    /\ UNCHANGED <<docs, config, batches, versions, executions, started, now, result,
                   calls, loc>>

\* line 89: auto_label_document(file_name, gcs_uri)
CallAutoLabelDocument ==
    /\ pc[1] = "auto_label_document"
    /\ Returns(AutoLabelDocument(loc[1].file_name))

\* lines 246-269: the pair process_with_document_ai extracts from a response
CallProcessWithDocumentAI ==
    /\ pc[1] = "process_with_document_ai"
    /\ Returns(ProcessWithDocumentAI(loc[1].response))

NextFn == CallAutoLabelDocument \/ CallProcessWithDocumentAI

SpecFn == InitFn /\ [][NextFn]_vars

(***************************************************************************)
(* Specification: one batch labeling run, main of                          *)
(* final_successful_auto_labeling.py, one HTTP request per step            *)
(***************************************************************************)
\* s.endswith(p)
EndsWith(s, p) == Len(s) >= Len(p) /\ SubSeq(s, Len(s) - Len(p) + 1, Len(s)) = p

\* s.replace(old, new), old not empty
RECURSIVE StrReplace(_, _, _)
StrReplace(s, old, new) ==
    IF Len(s) < Len(old) THEN s
    ELSE IF SubSeq(s, 1, Len(old)) = old
         THEN new \o StrReplace(SubSeq(s, Len(old) + 1, Len(s)), old, new)
         ELSE Char(s, 1) \o StrReplace(SubSeq(s, 2, Len(s)), old, new)

\* the folders the run visits, in order: the first and the fourteenth of the
\* fifteen of lines 146-160
FolderTypes == <<"capital_call", "tax">>

\* line 18
BUCKET_NAME == "document-ai-test-veronica"

\* line 165
FolderPath(doc_type) == DocumentsPrefix \o doc_type \o "/"

\* bound on the PDF objects the bucket holds under one folder
MaxFiles == 2

\* names of the objects under a folder, in listing order
BucketFiles == <<"a.pdf", "b.pdf.pdf", "c.pdf", "d.pdf">>

\* what a call returns when the response is not usable
None == [is_none |-> TRUE, keys |-> {}]

\* a decoded JSON object, by its top-level keys
Json(keys) == [is_none |-> FALSE, keys |-> keys]

\* Python truth value of None or of a dict
JsonTruthy(v) == ~v.is_none /\ v.keys # {}

\* responses of the storage list request: an error, or up to MaxFiles PDF
\* objects, possibly after an object that is not a PDF
ListResponses(folder_path) ==
    { [status_code |-> 403, items |-> << >>] }
    \cup { [status_code |-> 200,
            items |-> other \o [k \in 1..n |-> [name |-> folder_path \o BucketFiles[k]]]] :
             other \in {<< >>, <<[name |-> folder_path \o "notes.txt"]>>},
             n \in 0..MaxFiles }

\* responses of the OCR request and of the import request
JsonResponses(key) ==
    { [status_code |-> 500, json |-> {"error"}],
      [status_code |-> 200, json |-> {}],
      [status_code |-> 200, json |-> {"error"}],
      [status_code |-> 200, json |-> {key}] }

\* status codes of the upload request
UploadStatusCodes == {200, 503}

\* lines 33-39
ListFilesInFolder(response) ==
    LET IsPdf(item) == EndsWith(item.name, ".pdf")
    IN  IF response.status_code = 200 THEN SelectSeq(response.items, IsPdf)
        ELSE << >>

\* lines 57-62
ProcessDocumentWithAI(response) ==
    IF response.status_code = 200 THEN Json(response.json) ELSE None

\* lines 66-94
CreateLabeledDocument(processed_doc, document_type, original_uri) ==
    IF ~JsonTruthy(processed_doc) \/ "document" \notin processed_doc.keys
    THEN None
    ELSE [is_none |-> FALSE,
          keys |-> {"mimeType", "text", "pages", "uri", "entities"},
          uri |-> original_uri,
          entity_type |-> document_type]

\* lines 185-186
OutputPath(doc_type, file_name) ==
    "final_labeled_documents/" \o doc_type \o "/"
        \o StrReplace(file_name, ".pdf", ".json")

\* line 107
UploadLabeledDocument(status_code) == status_code = 200

\* lines 134-139
ImportDocumentsToProcessor(response) ==
    IF response.status_code = 200 THEN Json(response.json) ELSE None

\* lines 161-163: the locals of main before the first folder
MainLocals ==
    [fn |-> "main", folder |-> 1, files |-> << >>, i |-> 0,
     total_processed |-> 0, labeled_doc |-> None]

InitBatch ==
    /\ loc = [p \in Procs |-> IF p = 1 THEN MainLocals ELSE IdleLoc]
    /\ pc = [p \in Procs |-> IF p = 1 THEN "list_files_in_folder" ELSE "idle"]
    /\ docs = [d \in DocIds |-> NoDoc]
    /\ config = NoConfig
    /\ batches = << >>
    /\ versions = {"DEPLOYED"}
    /\ executions = << >>
    /\ started = 0
    /\ now = 1
    /\ result = None
    /\ calls = << >>
    /\ ret = NoRet

\* an entry of the log of requests: the function that issued it, its
\* argument and how it ended
Request(call, arg, out) == [call |-> call, arg |-> arg, out |-> out]

\* lines 198-225 short of the import: where main goes after the last folder
AfterFolders(l) ==
    IF l.total_processed > 0
    THEN [pc |-> "import_documents_to_processor", loc |-> l, ret |-> NoRet]
    ELSE [pc |-> "returned", loc |-> l, ret |-> [called |-> TRUE, value |-> FALSE]]

\* lines 163 and 171: where main goes after the file at position l.i
AfterFile(l) ==
    IF l.i < Len(l.files)
    THEN [pc |-> "process_document_with_ai", loc |-> [l EXCEPT !.i = @ + 1],
          ret |-> NoRet]
    ELSE IF l.folder < Len(FolderTypes)
         THEN [pc |-> "list_files_in_folder",
               loc |-> [l EXCEPT !.folder = @ + 1, !.files = << >>, !.i = 0],
               ret |-> NoRet]
         ELSE AfterFolders(l)

\* main moves to the position o, having issued the request entry
Moves(o, entry, import_result) ==
    /\ pc' = [pc EXCEPT ![1] = o.pc]
    /\ loc' = [loc EXCEPT ![1] = o.loc]
    /\ ret' = o.ret
    /\ calls' = Append(calls, entry)
    /\ result' = import_result
    /\ UNCHANGED <<docs, config, batches, versions, executions, started, now>>

\* the request raises (connection error, timeout, token refresh): nothing in
\* the script catches it, the run ends with the exception
Aborts(call, arg) ==
    Moves([pc |-> "raised", loc |-> loc[1], ret |-> NoRet],
          Request(call, arg, "raised"), result)

\* line 166: files = list_files_in_folder(folder_path)
ListFiles ==
    /\ pc[1] = "list_files_in_folder"
    /\ LET folder_path == FolderPath(FolderTypes[loc[1].folder])
       IN  \/ Aborts("list_files_in_folder", folder_path)
           \/ \E response \in ListResponses(folder_path) :
                 LET files == ListFilesInFolder(response)
                 IN  Moves(AfterFile([loc[1] EXCEPT !.files = files, !.i = 0]),
                           [call |-> "list_files_in_folder", arg |-> folder_path,
                            out |-> IF response.status_code = 200 THEN "ok"
                                    ELSE "failed",
                            files |-> files],
                           result)

\* lines 172-183 and 193-196: OCR of the file, then the labeled document
Ocr ==
    /\ pc[1] = "process_document_with_ai"
    /\ LET doc_type == FolderTypes[loc[1].folder]
           file_path == loc[1].files[loc[1].i].name
       IN  \/ Aborts("process_document_with_ai", file_path)
           \/ \E response \in JsonResponses("document") :
                 LET processed == ProcessDocumentWithAI(response)
                     labeled_doc ==
                         IF JsonTruthy(processed)
                         THEN CreateLabeledDocument(processed, doc_type,
                                  "gs://" \o BUCKET_NAME \o "/" \o file_path)
                         ELSE None
                     l == [loc[1] EXCEPT !.labeled_doc = labeled_doc]
                 IN  Moves(IF JsonTruthy(labeled_doc)
                           THEN [pc |-> "upload_labeled_document", loc |-> l,
                                 ret |-> NoRet]
                           ELSE AfterFile(l),
                           Request("process_document_with_ai", file_path,
                                   IF ~JsonTruthy(processed) THEN "failed"
                                   ELSE IF JsonTruthy(labeled_doc) THEN "ok"
                                   ELSE "not built"),
                           result)

\* lines 185-192: upload of the labeled document
UploadLabeled ==
    /\ pc[1] = "upload_labeled_document"
    /\ LET doc_type == FolderTypes[loc[1].folder]
           file_name == Basename(loc[1].files[loc[1].i].name)
           output_path == OutputPath(doc_type, file_name)
       IN  \/ Aborts("upload_labeled_document", output_path)
           \/ \E status_code \in UploadStatusCodes :
                 LET uploaded == UploadLabeledDocument(status_code)
                     l == [loc[1] EXCEPT !.total_processed =
                                             IF uploaded THEN @ + 1 ELSE @]
                 IN  Moves(AfterFile(l),
                           Request("upload_labeled_document", output_path,
                                   IF uploaded THEN "ok" ELSE "failed"),
                           result)

\* lines 202-222: the import request and the value main returns
Import ==
    /\ pc[1] = "import_documents_to_processor"
    /\ \/ Aborts("import_documents_to_processor", "final_labeled_documents/")
       \/ \E response \in JsonResponses("name") :
             LET import_result == ImportDocumentsToProcessor(response)
                 success == JsonTruthy(import_result) /\ "name" \in import_result.keys
             IN  Moves([pc |-> "returned", loc |-> loc[1],
                        ret |-> [called |-> TRUE, value |-> success]],
                       Request("import_documents_to_processor",
                               "final_labeled_documents/",
                               IF import_result.is_none THEN "failed" ELSE "ok"),
                       import_result)

NextBatch == ListFiles \/ Ocr \/ UploadLabeled \/ Import

SpecBatch == InitBatch /\ [][NextBatch]_vars

(***************************************************************************)
(* Properties of check_training_conditions, stated for SpecEval            *)
(***************************************************************************)
\* the store holds a batch of this processor in a non-terminal status
ClaimActive ==
    \E i \in 1..Len(batches) :
        /\ batches[i].processor_id = PROCESSOR_ID
        /\ batches[i].status \in {"pending", "preparing", "training", "deploying"}

\* the record carries a non-empty document_label
ClaimLabeled(rec) == "document_label" \in DOMAIN rec /\ rec.document_label # ""

\* this processor's records of the given status
ClaimWithStatus(status) ==
    {d \in DOMAIN docs :
        /\ docs[d] # NoDoc
        /\ docs[d].processor_id = PROCESSOR_ID
        /\ docs[d].status = status}

ClaimPendingCount ==
    Cardinality({d \in ClaimWithStatus("pending_initial_training") : ClaimLabeled(docs[d])})

ClaimUnusedCount ==
    Cardinality({d \in ClaimWithStatus("completed") :
        ClaimLabeled(docs[d]) /\ ~docs[d].used_for_training})

\* the stored configuration enables / disables training
ClaimEnabled == config # NoConfig /\ ("enabled" \in DOMAIN config => config.enabled)
ClaimDisabled == config # NoConfig /\ "enabled" \in DOMAIN config /\ ~config.enabled

\* the thresholds in force (the code's defaults when the key is absent)
ClaimMinInitial ==
    IF "min_documents_for_initial_training" \in DOMAIN config
    THEN config.min_documents_for_initial_training ELSE 3
ClaimMinIncremental ==
    IF "min_documents_for_incremental" \in DOMAIN config
    THEN config.min_documents_for_incremental ELSE 2

\* no call of the latest invocation raised
NoRaise == \A i \in 1..Len(calls) : calls[i] \notin {Raised(f) : f \in FaultPoints}

Returned(should_train, training_type) ==
    ret.called /\ ret.should_train = should_train /\ ret.training_type = training_type

\* C1: check_training_conditions never returns (True, _) when the store holds
\* a training_batches record of the processor with status pending, preparing,
\* training or deploying, whatever the counts, the thresholds and the
\* outcome of the store calls.
Thm_C1 == (ret.called /\ ClaimActive) => ~ret.should_train

\* an evaluation that met an active batch while the pending count reached
\* the threshold
Wit_C1 ==
    /\ Returned(FALSE, "")
    /\ NoRaise /\ ClaimEnabled /\ ClaimActive
    /\ ClaimPendingCount >= ClaimMinInitial

\* C7: with enabled = false in the training configuration,
\* check_training_conditions returns (False, '') for every combination of
\* counts, thresholds and batch records.
Thm_C7 == (ret.called /\ ClaimDisabled) => Returned(FALSE, "")

\* an evaluation under a disabled configuration with no active batch and
\* both counts at their thresholds
Wit_C7 ==
    /\ Returned(FALSE, "")
    /\ NoRaise /\ ClaimDisabled /\ ~ClaimActive
    /\ ClaimPendingCount >= ClaimMinInitial
    /\ ClaimUnusedCount >= ClaimMinIncremental

\* C8: with training enabled, no active batch and no store call raising,
\* check_training_conditions returns (True, 'initial') whenever the count of
\* labeled pending_initial_training documents is at least
\* min_documents_for_initial_training, whatever the unused count.
Thm_C8 ==
    (ret.called /\ NoRaise /\ ClaimEnabled /\ ~ClaimActive
        /\ ClaimPendingCount >= ClaimMinInitial)
    => Returned(TRUE, "initial")

\* an evaluation exactly at the initial threshold while the unused count
\* also reaches its threshold
Wit_C8 ==
    /\ Returned(TRUE, "initial")
    /\ NoRaise /\ ClaimEnabled /\ ~ClaimActive
    /\ ClaimPendingCount = ClaimMinInitial
    /\ ClaimUnusedCount >= ClaimMinIncremental

\* C9: with training enabled, no active batch, no store call raising and the
\* labeled pending count below min_documents_for_initial_training,
\* check_training_conditions returns (True, 'incremental') if the count of
\* labeled completed documents not used for training is at least
\* min_documents_for_incremental, and (False, '') otherwise.
Thm_C9 ==
    (ret.called /\ NoRaise /\ ClaimEnabled /\ ~ClaimActive
        /\ ClaimPendingCount < ClaimMinInitial)
    => IF ClaimUnusedCount >= ClaimMinIncremental
       THEN Returned(TRUE, "incremental")
       ELSE Returned(FALSE, "")

\* an evaluation that falls through the initial check and meets the
\* incremental threshold exactly
Wit_C9 ==
    /\ Returned(TRUE, "incremental")
    /\ NoRaise /\ ClaimEnabled /\ ~ClaimActive
    /\ ClaimPendingCount > 0
    /\ ClaimPendingCount < ClaimMinInitial
    /\ ClaimUnusedCount = ClaimMinIncremental

\* the store without its records that lack a non-empty document_label
WithoutUnlabeled ==
    [d \in DOMAIN docs |->
        IF docs[d] # NoDoc /\ ~ClaimLabeled(docs[d]) THEN NoDoc ELSE docs[d]]

\* C10: documents whose document_label is missing or empty are counted in
\* neither the pending nor the unused count: the counts are those of the
\* labeled documents, and the decision returned is the decision on the store
\* without the unlabeled documents, however many there are.
Thm_C10 ==
    /\ Cardinality(PendingInitial(docs)) = ClaimPendingCount
    /\ Cardinality(UnusedCompleted(docs)) = ClaimUnusedCount
    /\ (ret.called /\ NoRaise) =>
           \E o \in {CheckTrainingConditions(config, batches, WithoutUnlabeled, now, {})} :
               Returned(o.should_train, o.training_type)

\* an evaluation that returned (False, '') although the pending and the
\* completed unused documents, the unlabeled ones included, reach the
\* thresholds
Wit_C10 ==
    /\ Returned(FALSE, "")
    /\ NoRaise /\ ClaimEnabled /\ ~ClaimActive
    /\ Cardinality(ClaimWithStatus("pending_initial_training")) >= ClaimMinInitial
    /\ Cardinality({d \in ClaimWithStatus("completed") : ~docs[d].used_for_training})
           >= ClaimMinIncremental

(***************************************************************************)
(* Properties of the upload handler (Spec) and of its interleavings        *)
(* (SpecConc)                                                              *)
(***************************************************************************)
\* C2: for every interleaving of concurrent invocations, at most one calls
\* trigger_training_workflow for a threshold crossing: while no batch of the
\* processor has reached a terminal status, two invocations are never both
\* inside trigger_training_workflow, and no two executions are created.
Cex_C2 ==
    /\ \A p, q \in Procs :
          (p # q /\ TerminalCount(batches) = 0)
          => ~(pc[p] = "create_execution" /\ pc[q] = "create_execution")
    /\ \A i, j \in 1..Len(executions) :
          i # j => executions[i].epoch # executions[j].epoch

\* C3: once trigger_training_workflow has returned successfully, and before
\* the workflow has run any step, an active batch is recorded for the
\* processor (so that the next check_training_conditions returns (False, '')).
Cex_C3 == (started < Len(executions)) => ClaimActive

\* C4: an invocation for a path whose record exists with status completed
\* performs no store write, no classification call, no training evaluation
\* and no workflow trigger: its only call is the record lookup, and when the
\* lookup does not raise it returns status skipped.
Thm_C4 ==
    \A e \in Events \ SkippedEvents :
        (docs[DocumentIdOf[e.name]] # NoDoc
            /\ docs[DocumentIdOf[e.name]].status = "completed")
        => \A f \in FaultSets, r \in Responses :
               \E o \in {Handler(e, f, r)} :
                   /\ "doc_get" \notin f => o.result.status = "skipped"
                   /\ o.docs = docs
                   /\ o.config = config
                   /\ o.executions = executions
                   /\ o.ret = NoRet
                   /\ o.calls \in {<<"doc_get">>, <<Raised("doc_get")>>}

\* a duplicate event for a completed record that a batch has consumed was
\* skipped
Wit_C4 ==
    /\ result.status = "skipped"
    /\ result.reason = "Already processed"
    /\ calls = <<"doc_get">>
    /\ \E d \in DocIds : docs[d] # NoDoc
    /\ \A d \in DocIds :
          docs[d] # NoDoc => (docs[d].status = "completed" /\ docs[d].used_for_training)

\* C5: no document status transition is reversible: a stored record whose
\* status is completed never later has status pending or
\* pending_initial_training.
Cex_C5 ==
    [][\A d \in DocIds :
          (docs[d] # NoDoc /\ docs[d].status = "completed")
          => (docs'[d] # NoDoc
              /\ docs'[d].status \notin {"pending", "pending_initial_training"})]_vars

\* C6: the created_at of a document record is set once: once a record exists
\* for a document_id, no later step rewrites it with another created_at.
Cex_C6 ==
    [][\A d \in DocIds :
          docs[d] # NoDoc
          => (docs'[d] # NoDoc /\ docs'[d].created_at = docs[d].created_at)]_vars

\* C11: when no training_configs record exists, check_training_conditions
\* writes one with enabled = true, min_documents_for_initial_training = 3 and
\* min_documents_for_incremental = 2; a training_configs record that exists
\* is never overwritten by the evaluator.
Cex_C11 ==
    [][/\ (config = NoConfig /\ config' # NoConfig)
          => (/\ config'.enabled = TRUE
              /\ config'.min_documents_for_initial_training = 3
              /\ config'.min_documents_for_incremental = 2)
       /\ config # NoConfig => config' = config]_vars

\* the statuses of a structured result
ClaimStatuses == {"skipped", "success", "partial_success", "error"}

\* C12: every process_document_upload invocation returns a structured result
\* whose status is skipped, success, partial_success or error, whichever
\* store, classification, version-lookup or trigger call raises: in every
\* reachable store, for every event, failure point and classifier response.
Thm_C12 ==
    /\ result.status # "none" => result.status \in ClaimStatuses
    /\ \A e \in Events, f \in FaultSets, r \in Responses :
           \E o \in {Handler(e, f, r)} :
               /\ o.result.status \in ClaimStatuses
               /\ o.result.status = "error" => "error" \in DOMAIN o.result

\* an invocation whose document write raised returned an error result
Wit_C12 ==
    /\ result.status = "error"
    /\ Len(calls) > 0
    /\ calls[Len(calls)] = Raised("doc_set")

\* the record of the path exists with status completed
ClaimCompleted(file_name) ==
    /\ docs[DocumentIdOf[file_name]] # NoDoc
    /\ docs[DocumentIdOf[file_name]].status = "completed"

\* C13: if the classification call fails during an upload invocation (a
\* deployed version exists and the record of the path is not completed), the
\* invocation writes no document record, leaves documents, configuration and
\* executions unchanged, runs no training evaluation, triggers no workflow,
\* makes the classification call once and returns status error.
Thm_C13 ==
    \A e \in Events \ SkippedEvents :
        ("DEPLOYED" \in versions /\ ~ClaimCompleted(e.name))
        => \A r \in Responses :
               \E o \in {Handler(e, {"process_document"}, r)} :
                   /\ o.result.status = "error"
                   /\ o.docs = docs
                   /\ o.config = config
                   /\ o.executions = executions
                   /\ o.ret = NoRet
                   /\ o.calls = <<"doc_get", "list_versions", Raised("process_document")>>

\* the classification of a new document failed while the store already held
\* an unused completed record that reaches the incremental threshold
Wit_C13 ==
    /\ result.status = "error"
    /\ calls = <<"doc_get", "list_versions", Raised("process_document")>>
    /\ ret = NoRet
    /\ ClaimUnusedCount >= 1
    /\ now > 2
    /\ Cardinality({d \in DocIds : docs[d] # NoDoc}) = 1

\* the event fails the filter: not under documents/ or not a PDF
ClaimFiltered(e) ==
    \/ Len(e.name) < 10
    \/ SubSeq(e.name, 1, 10) # "documents/"
    \/ e.contentType # "application/pdf"

\* C14: an upload event whose path does not start with documents/ or whose
\* content type is not application/pdf returns status skipped and makes no
\* call at all: no store read or write, no classification, no training
\* evaluation, no workflow trigger, whatever would have failed.
Thm_C14 ==
    \A e \in Events :
        ClaimFiltered(e)
        => \A f \in FaultSets, r \in Responses :
               \E o \in {Handler(e, f, r)} :
                   /\ o.result.status = "skipped"
                   /\ o.calls = << >>
                   /\ o.docs = docs
                   /\ o.config = config
                   /\ o.executions = executions
                   /\ o.ret = NoRet
                   /\ o.now = now

\* a filtered event was skipped by a handler that had stored a labeled
\* pending document before, with training enabled and no batch active
Wit_C14 ==
    /\ result.status = "skipped"
    /\ result.reason = "Not a document PDF"
    /\ calls = << >>
    /\ ClaimEnabled /\ ~ClaimActive
    /\ ClaimPendingCount >= 1

\* C15: within one invocation the document record write comes before
\* check_training_conditions and before trigger_training_workflow, and the
\* trigger is the last side-effecting action: the evaluation starts with the
\* step that has just written the record, its calls write no document, the
\* trigger is entered only from the evaluation's last query, and the
\* invocation returns from the trigger without another write or call.
Thm_C15 ==
    [][\A p \in Procs :
          /\ (pc[p] # "config_get" /\ pc'[p] = "config_get")
             => (/\ pc[p] = "doc_set"
                 /\ docs'[loc[p].document_id] = loc[p].doc_data)
          /\ (pc'[p] # pc[p]
                /\ pc'[p] \in {"config_set", "batches_query", "pending_query", "unused_query"})
             => (/\ pc[p] \in {"config_get", "config_set", "batches_query", "pending_query"}
                 /\ docs' = docs)
          /\ (pc[p] # "create_execution" /\ pc'[p] = "create_execution")
             => (pc[p] = "unused_query" /\ docs' = docs /\ config' = config)
          /\ (pc[p] = "create_execution" /\ pc'[p] # "create_execution")
             => (/\ pc'[p] = "idle"
                 /\ docs' = docs /\ config' = config /\ batches' = batches)]_vars

\* every invocation has returned, one of them from a trigger that created an
\* execution for the pending documents it had counted
Wit_C15 ==
    /\ \A p \in Procs : pc[p] = "idle"
    /\ Len(executions) = 1
    /\ executions[1].training_type = "initial"
    /\ ClaimEnabled
    /\ ClaimPendingCount >= ClaimMinInitial

\* the records the store holds
ClaimRecords == {d \in DocIds : docs[d] # NoDoc}

\* C16: the document ID depends on the object path alone: whenever and in
\* whatever store state the invocations for a path run, they address one
\* record: every record sits under the id of its own path, no two records
\* carry the same path, and the id a result reports is the id of a record of
\* the store.
Thm_C16 ==
    /\ \A d \in ClaimRecords :
          /\ docs[d].document_id = d
          /\ d = DocumentIdOf[docs[d].file_name]
    /\ \A d1, d2 \in ClaimRecords :
          docs[d1].file_name = docs[d2].file_name => d1 = d2
    /\ "document_id" \in DOMAIN result => result.document_id \in ClaimRecords

\* the path documents/z.pdf was handled a second time, at a later time and
\* with its record already in the store, and the store holds that one record
Wit_C16 ==
    /\ result.status = "success"
    /\ result.document_id = DocumentIdOf["documents/z.pdf"]
    /\ docs[DocumentIdOf["documents/z.pdf"]].created_at = 2
    /\ now = 3
    /\ ClaimRecords = {DocumentIdOf["documents/z.pdf"]}

(***************************************************************************)
(* Properties of auto_label_document and process_with_document_ai, stated  *)
(* for SpecFn                                                              *)
(***************************************************************************)
\* auto_label_document has returned
Labeled == pc[1] = "returned" /\ loc[1].fn = "auto_label_document"

\* the path after the root prefix documents/
ClaimAfterRoot(file_name) == SubSeq(file_name, 11, Len(file_name))

\* the positions of "/" after the root prefix
ClaimSlashes(file_name) ==
    {i \in 1..Len(ClaimAfterRoot(file_name)) :
        SubSeq(ClaimAfterRoot(file_name), i, i) = "/"}

\* the path has a folder segment between the root prefix and the file name
ClaimHasFolder(file_name) == ClaimSlashes(file_name) # {}

\* that segment: what follows the root prefix up to the next "/" (the first
\* folder when folders are nested)
ClaimFolder(file_name) ==
    SubSeq(ClaimAfterRoot(file_name), 1,
           (CHOOSE i \in ClaimSlashes(file_name) :
               \A j \in ClaimSlashes(file_name) : i <= j) - 1)

\* C17: for every path with a folder segment between documents/ and the file
\* name, auto_label_document returns that segment uppercased with spaces
\* replaced by underscores, whatever keywords the folder or the file name
\* contain.
Thm_C17 ==
    (Labeled /\ ClaimHasFolder(loc[1].file_name))
    => ret.value = StrUpper(ReplaceSpaces(ClaimFolder(loc[1].file_name)))

\* a file whose name matches the keyword tax, in a folder with a space, was
\* labeled after the folder
Wit_C17 ==
    /\ Labeled
    /\ loc[1].file_name = "documents/cap call/dividend tax.pdf"
    /\ ret.value = "CAP_CALL"

\* the first type of the table one of whose phrases occurs in name
RECURSIVE ClaimFirstMatch(_, _)
ClaimFirstMatch(table, name) ==
    IF table = << >> THEN "OTHER"
    ELSE IF \E k \in 1..Len(Head(table).keywords) :
                \E i \in 1..Len(name) :
                    \E j \in i..Len(name) : SubSeq(name, i, j) = Head(table).keywords[k]
         THEN Head(table).doc_type
         ELSE ClaimFirstMatch(Tail(table), name)

\* C18: for every path without a folder segment, auto_label_document returns
\* the first label, in the order of DOCUMENT_TYPE_KEYWORDS, one of whose
\* phrases is a substring of the lowercased file name (the path without the
\* root prefix), and OTHER when no phrase matches.
Thm_C18 ==
    (Labeled /\ ~ClaimHasFolder(loc[1].file_name))
    => ret.value = ClaimFirstMatch(DOCUMENT_TYPE_KEYWORDS,
                                   StrLower(ClaimAfterRoot(loc[1].file_name)))

\* a file name in upper case with phrases of TAX and of DISTRIBUTION_NOTICE,
\* the TAX phrase first: the label is the earlier type of the table
Wit_C18 ==
    /\ Labeled
    /\ loc[1].file_name = "documents/Tax Distribution.PDF"
    /\ ret.value = "DISTRIBUTION_NOTICE"

\* the candidates of a response, in the order the code meets them: the
\* entities that carry a type, then the labels
ClaimCandidates(response) ==
    [i \in 1..Len(SelectSeq(response.entities, LAMBDA e : e.type_ # "")) |->
        [document_type |-> SelectSeq(response.entities, LAMBDA e : e.type_ # "")[i].type_,
         confidence |-> SelectSeq(response.entities, LAMBDA e : e.type_ # "")[i].confidence]]
    \o [i \in 1..Len(response.labels) |->
        [document_type |-> response.labels[i].name,
         confidence |-> response.labels[i].confidence]]

\* the first candidate of highest confidence, (OTHER, 0) without candidates
ClaimBest(response) ==
    LET cands == ClaimCandidates(response)
    IN  IF cands = << >> THEN [document_type |-> "OTHER", confidence |-> 0]
        ELSE cands[CHOOSE i \in 1..Len(cands) :
                       /\ \A j \in 1..Len(cands) : cands[j].confidence <= cands[i].confidence
                       /\ \A j \in 1..(i - 1) : cands[j].confidence < cands[i].confidence]

\* C19: the (predicted type, confidence) pair process_with_document_ai
\* returns is the highest-confidence candidate among the entities and labels
\* of the response, the first one seen on a tie, and (OTHER, 0) when the
\* response has none.
Cex_C19 ==
    (pc[1] = "returned" /\ loc[1].fn = "process_with_document_ai")
    => ret.value = ClaimBest(loc[1].response)

(***************************************************************************)
(* Properties of the stored record (Spec)                                  *)
(***************************************************************************)
\* the records a classification has written
ClaimClassified == {d \in ClaimRecords : docs[d].status = "completed"}

\* every record a classification writes carries the type and the confidence
\* process_with_document_ai returned
ClaimStoresPrediction ==
    \A e \in Events \ SkippedEvents, r \in Responses :
        ("DEPLOYED" \in versions /\ ~ClaimCompleted(e.name))
        => \E o \in {Handler(e, {}, r)} :
               /\ o.docs[DocumentIdOf[e.name]].status = "completed"
               /\ o.docs[DocumentIdOf[e.name]].document_type
                      = ProcessWithDocumentAI(r).document_type
               /\ o.docs[DocumentIdOf[e.name]].confidence_score
                      = ProcessWithDocumentAI(r).confidence

ClaimResultFields == {"confidence_score", "document_type", "processed_at"}

\* C21: every record the upload handler writes has status
\* pending_initial_training exactly when no deployed version was found in
\* that invocation (none listed, or the listing raised) and completed exactly
\* when one was found and the classification succeeded; pending is never
\* persisted; confidence_score, document_type and processed_at are present
\* in a record if and only if its status is completed.
Thm_C21 ==
    /\ \A d \in ClaimRecords :
          /\ docs[d].status \in {"pending_initial_training", "completed"}
          /\ IF docs[d].status = "completed"
             THEN ClaimResultFields \subseteq DOMAIN docs[d]
             ELSE ClaimResultFields \cap DOMAIN docs[d] = {}
    /\ \A e \in Events \ SkippedEvents, f \in FaultSets, r \in Responses :
           \E o \in {Handler(e, f, r)} :
               (o.docs # docs \/ "doc_set" \in SeqRange(o.calls))
               => o.docs[DocumentIdOf[e.name]].status =
                      IF "DEPLOYED" \in versions /\ "list_versions" \notin f
                      THEN "completed" ELSE "pending_initial_training"

\* the store holds a record written when the version listing had raised and
\* a record written after a classification, both by the handler
Wit_C21 ==
    /\ \E d \in ClaimRecords :
          docs[d].status = "pending_initial_training" /\ docs[d].created_at = 1
    /\ \E d \in ClaimRecords :
          docs[d].status = "completed" /\ docs[d].processed_at = 2
    /\ "DEPLOYED" \in versions
    /\ batches = << >>

\* C22: if trigger_training_workflow fails after a positive training
\* decision, the handler returns status partial_success with
\* training_triggered = false, the record written earlier in the invocation
\* stays in the store as written (the store is the one an invocation without
\* the failure leaves), no execution is created and create_execution is
\* called once.
Thm_C22 ==
    \A e \in Events \ SkippedEvents, r \in Responses :
        \E o \in {Handler(e, {"create_execution"}, r)}, ok \in {Handler(e, {}, r)} :
            (o.ret.called /\ o.ret.should_train)
            => /\ o.result.status = "partial_success"
               /\ o.result.training_triggered = FALSE
               /\ o.docs[DocumentIdOf[e.name]] # NoDoc
               /\ o.docs[DocumentIdOf[e.name]].file_name = e.name
               /\ o.docs = ok.docs
               /\ o.config = ok.config
               /\ o.executions = executions
               /\ Len(SelectSeq(o.calls,
                                LAMBDA c : c \in {"create_execution",
                                                  Raised("create_execution")})) = 1
               /\ o.calls[Len(o.calls)] = Raised("create_execution")

\* the trigger raised after a positive decision: the result is
\* partial_success, the record of the invocation is in the store and no
\* execution exists
Wit_C22 ==
    /\ result.status = "partial_success"
    /\ ~result.training_triggered
    /\ ret.called /\ ret.should_train
    /\ calls[Len(calls)] = Raised("create_execution")
    /\ docs[result.document_id] # NoDoc
    /\ executions = << >>

\* C23: the upload handler never changes a stored record's used_for_training
\* from true to false: with a record that a training batch has marked used
\* in the store, whatever its status, no upload event, failure or response
\* makes the handler leave that record with the flag reset.
Cex_C23 ==
    \A e \in Events \ SkippedEvents, f \in FaultSets, r \in Responses :
        \E o \in {Handler(e, f, r)} :
            \A d \in DocIds :
                (docs[d] # NoDoc /\ docs[d].used_for_training)
                => (o.docs[d] # NoDoc /\ o.docs[d].used_for_training)

(***************************************************************************)
(* Properties of the batch labeling run (SpecBatch)                        *)
(***************************************************************************)
\* positions of the log where a request of the function fn was issued
ClaimRequests(fn) == {k \in 1..Len(calls) : calls[k].call = fn}

\* the import requests, the listings and the successful uploads of the run
ClaimImports == ClaimRequests("import_documents_to_processor")
ClaimListings == ClaimRequests("list_files_in_folder")
ClaimUploaded ==
    {k \in ClaimRequests("upload_labeled_document") : calls[k].out = "ok"}

\* the run is over: main returned or ended with an exception
ClaimRunOver == pc[1] \in {"returned", "raised"}

\* the file was handed to OCR before position k of the log
ClaimAttemptedBefore(file_path, k) ==
    \E m \in ClaimRequests("process_document_with_ai") :
        m < k /\ calls[m].arg = file_path

\* every folder was listed and every listed file attempted before position k
ClaimAllAttemptedBefore(k) ==
    \A n \in 1..Len(FolderTypes) :
        \E j \in ClaimListings :
            /\ j < k
            /\ calls[j].arg = "documents/" \o FolderTypes[n] \o "/"
            /\ \A i \in 1..Len(calls[j].files) :
                   ClaimAttemptedBefore(calls[j].files[i].name, k)

\* a file whose OCR, build or upload failed, as position in the log
ClaimFileFailures ==
    {k \in ClaimRequests("process_document_with_ai")
           \cup ClaimRequests("upload_labeled_document") : calls[k].out # "ok"}

\* C24: in a batch labeling run the import request is issued at most once,
\* only after every file of every folder has been attempted, and, once the
\* run is over, if and only if at least one labeled artifact was uploaded
\* successfully; after a failure to OCR, build or upload a file the files
\* listed with it after it are still attempted; the run returns True only
\* when the import response carries an operation name.
Cex_C24 ==
    /\ Cardinality(ClaimImports) <= 1
    /\ \A k \in ClaimImports : ClaimAllAttemptedBefore(k)
    /\ ClaimImports # {} => ClaimUploaded # {}
    /\ (ClaimRunOver /\ ClaimUploaded # {}) => ClaimImports # {}
    /\ (ClaimRunOver /\ ClaimFileFailures # {})
       => \A j \in ClaimListings :
              \A i \in 1..Len(calls[j].files) :
                  ClaimAttemptedBefore(calls[j].files[i].name, Len(calls) + 1)
    /\ (ret.called /\ ret.value)
       => (~result.is_none /\ "name" \in result.keys)

====
